---- MODULE Spec2Model ----
(***************************************************************************)
(* Token cache manager (src/internal/tokencache/cache_manager.go).         *)
(*                                                                         *)
(* The cache manager is stateless; the state of the system is the content  *)
(* of the storage manager it talks to, the wall clock, the caller's        *)
(* request object (authParameters, which CacheTokenResponse mutates) and   *)
(* the observable outcome of the last call.                                *)
(***************************************************************************)
EXTENDS Integers, Sequences, FiniteSets, TLC

VARIABLES
    clock,           \* time.Now().Unix()
    store,           \* content held by the storage manager
    authParameters,  \* the caller's *msalbase.AuthParametersInternal
    issued,          \* token responses handed to CacheTokenResponse so far
    last,            \* the last call: inputs, storage calls made, outcome
    running          \* CacheTokenResponse calls in progress, by goroutine

vars == <<clock, store, authParameters, issued, last, running>>

(***************************************************************************)
(* Bounds of the model.                                                    *)
(***************************************************************************)
BaseTime == 1000        \* the earliest clock value explored
MaxTick == 1            \* the clock ranges over BaseTime .. BaseTime + MaxTick
MaxResponses == 2       \* token responses cached in one behaviour
MaxEmptyKeys == 1       \* empty key fields in one request

(***************************************************************************)
(* Program constants.                                                      *)
(***************************************************************************)
ExpiryBuffer == 300     \* expiresOn <= now+300

Times == BaseTime .. (BaseTime + MaxTick)

(***************************************************************************)
(* Strings that hold timestamps are sequences of one-character strings,    *)
(* so that strconv.ParseInt and strconv.FormatInt are computed and not     *)
(* assumed.                                                                *)
(***************************************************************************)
Digits == <<"0", "1", "2", "3", "4", "5", "6", "7", "8", "9">>

IsDigit(c) == \E i \in 1..10 : Digits[i] = c

DigitVal(c) == (CHOOSE i \in 1..10 : Digits[i] = c) - 1

RECURSIVE DigitsValue(_)
DigitsValue(s) ==
    IF s = <<>> THEN 0
    ELSE 10 * DigitsValue(SubSeq(s, 1, Len(s) - 1)) + DigitVal(s[Len(s)])

\* strconv.ParseInt(s, 10, 64): an optional sign, then one or more decimal
\* digits and nothing else.  ok = FALSE stands for err != nil.
ParseInt(s) ==
    LET signed == s # <<>> /\ s[1] \in {"+", "-"}
        body == IF signed THEN Tail(s) ELSE s
    IN  IF body = <<>> \/ \E i \in 1..Len(body) : ~IsDigit(body[i])
        THEN [ok |-> FALSE, val |-> 0]
        ELSE [ok |-> TRUE,
              val |-> IF signed /\ s[1] = "-" THEN 0 - DigitsValue(body)
                      ELSE DigitsValue(body)]

RECURSIVE FormatNat(_)
FormatNat(n) ==
    IF n < 10 THEN <<Digits[n + 1]>>
    ELSE FormatNat(n \div 10) \o <<Digits[(n % 10) + 1]>>

\* strconv.FormatInt(n, 10)
FormatInt(n) == IF n < 0 THEN <<"-">> \o FormatNat(0 - n) ELSE FormatNat(n)

(***************************************************************************)
(* isAccessTokenValid, with time.Now().Unix() passed as now.               *)
(***************************************************************************)
\* isAccessTokenValid with the expiry test off by one: expiresOn < now+300.
isAccessTokenValid_NoBuffer(accessToken, now) ==
    LET cachedAt == ParseInt(accessToken.CachedAt)
        expiresOn == ParseInt(accessToken.ExpiresOnUnixTimestamp)
    IN  IF ~cachedAt.ok THEN FALSE
        ELSE IF cachedAt.val > now THEN FALSE
        ELSE IF ~expiresOn.ok THEN FALSE
        ELSE IF expiresOn.val < now + ExpiryBuffer THEN FALSE
        ELSE TRUE

\* isAccessTokenValid with the cached-at test off by one: cachedAt >= now.
isAccessTokenValid_CachedBefore(accessToken, now) ==
    LET cachedAt == ParseInt(accessToken.CachedAt)
        expiresOn == ParseInt(accessToken.ExpiresOnUnixTimestamp)
    IN  IF ~cachedAt.ok THEN FALSE
        ELSE IF cachedAt.val >= now THEN FALSE
        ELSE IF ~expiresOn.ok THEN FALSE
        ELSE IF expiresOn.val <= now + ExpiryBuffer THEN FALSE
        ELSE TRUE

\* isAccessTokenValid as the source has it.
isAccessTokenValid(accessToken, now) ==
    LET cachedAt == ParseInt(accessToken.CachedAt)
        expiresOn == ParseInt(accessToken.ExpiresOnUnixTimestamp)
    IN  IF ~cachedAt.ok THEN FALSE
        ELSE IF cachedAt.val > now THEN FALSE
        ELSE IF ~expiresOn.ok THEN FALSE
        ELSE IF expiresOn.val <= now + ExpiryBuffer THEN FALSE
        ELSE TRUE

(***************************************************************************)
(* Values.                                                                 *)
(***************************************************************************)
Nil == [nil |-> TRUE]      \* a nil pointer: an absent entity, no result

ErrNil == "nil"
ErrMissingKeyRead ==
    "Skipping the tokens cache lookup, one of the primary keys is empty"
ErrMissingKeyWrite ==
    "Skipping writing data to the tokens cache, one of the primary keys is empty"
ErrMissingKeyDelete ==
    "Failed to delete refresh token from the cache, one of the primary keys is empty"
ErrMetadata == "GetMetadataEntry: instance discovery failed"

StorageError(call) == "storage error: " \o call

OperationStatusTypeSuccess == "Success"
OperationStatusTypeFailure == "Failure"

CredentialTypeOauth2RefreshToken == "RefreshToken"
CredentialTypeOauth2AccessToken == "AccessToken"

(***************************************************************************)
(* Collaborators whose code is outside the source tree, modelled from the  *)
(* specification: entity constructors, the token response's accessors and  *)
(* the storage manager.                                                    *)
(***************************************************************************)
\* tokenResponse.GetHomeAccountIDFromClientInfo(): uid.utid of the client
\* info, empty when either part is missing.
GetHomeAccountIDFromClientInfo(tokenResponse) ==
    IF tokenResponse.ClientInfo.UID = "" \/ tokenResponse.ClientInfo.UTID = ""
    THEN ""
    ELSE tokenResponse.ClientInfo.UID \o "." \o tokenResponse.ClientInfo.UTID

RECURSIVE ConcatenateScopes(_)
\* msalbase.ConcatenateScopes: the scopes joined by single spaces.
ConcatenateScopes(scopes) ==
    IF scopes = <<>> THEN ""
    ELSE IF Len(scopes) = 1 THEN scopes[1]
    ELSE scopes[1] \o " " \o ConcatenateScopes(Tail(scopes))

HasRefreshToken(tokenResponse) == tokenResponse.RefreshToken # ""

HasAccessToken(tokenResponse) == tokenResponse.AccessToken # ""

CreateRefreshTokenCacheItem(homeAccountID, environment, clientID, refreshToken, familyID) ==
    [HomeAccountID |-> homeAccountID, Environment |-> environment,
     ClientID |-> clientID, Secret |-> refreshToken, FamilyID |-> familyID]

CreateAccessTokenCacheItem(homeAccountID, environment, realm, clientID, cachedAt, expiresOn, extendedExpiresOn, target, accessToken) ==
    [HomeAccountID |-> homeAccountID, Environment |-> environment,
     Realm |-> realm, ClientID |-> clientID,
     CachedAt |-> FormatInt(cachedAt),
     ExpiresOnUnixTimestamp |-> FormatInt(expiresOn),
     ExtendedExpiresOnUnixTimestamp |-> FormatInt(extendedExpiresOn),
     Scopes |-> target, Secret |-> accessToken]

CreateIDTokenCacheItem(homeAccountID, environment, realm, clientID, rawToken) ==
    [HomeAccountID |-> homeAccountID, Environment |-> environment,
     Realm |-> realm, ClientID |-> clientID, Secret |-> rawToken]

CreateAccount(homeAccountID, environment, realm, localAccountID, authorityType, preferredUsername) ==
    [HomeAccountID |-> homeAccountID, Environment |-> environment,
     Realm |-> realm, LocalAccountID |-> localAccountID,
     AuthorityType |-> authorityType, PreferredUsername |-> preferredUsername]

CreateAppMetadata(familyID, clientID, environment) ==
    [FamilyID |-> familyID, ClientID |-> clientID, Environment |-> environment]

CreateStorageTokenResponse(accessToken, refreshToken, idToken, account) ==
    [accessToken |-> accessToken, refreshToken |-> refreshToken,
     idToken |-> idToken, account |-> account]

\* The storage manager holds one entity per composite key; a write replaces
\* the entity stored under the same key.
EmptyStore ==
    [accessTokens |-> {}, refreshTokens |-> {}, idTokens |-> {},
     accounts |-> {}, appMetadata |-> {}]

AccessTokenKey(at) ==
    <<at.HomeAccountID, at.Environment, at.Realm, at.ClientID, at.Scopes>>

\* A refresh token with a family id is shared by the family's clients; one
\* without is scoped to its client id.
RefreshTokenKey(rt) ==
    <<rt.HomeAccountID, rt.Environment,
      IF rt.FamilyID # "" THEN <<"family", rt.FamilyID>>
      ELSE <<"client", rt.ClientID>>>>

IDTokenKey(it) == <<it.HomeAccountID, it.Environment, it.Realm, it.ClientID>>

AccountKey(a) == <<a.HomeAccountID, a.Environment, a.Realm>>

AppMetadataKey(am) == <<am.Environment, am.ClientID>>

\* The set with the entities in replaced taken out and entity put in.
Put(set, replaced, entity) == (set \ replaced) \cup {entity}

WriteCalls ==
    <<"WriteRefreshToken", "WriteAccessToken", "WriteIDToken", "WriteAccount",
      "WriteAppMetadata">>

\* The storage content after a successful Write<X>(entity).
StorageWrite(s, call, entity) ==
    CASE call = "WriteRefreshToken" ->
            [s EXCEPT !.refreshTokens =
                Put(@, {x \in @ : RefreshTokenKey(x) = RefreshTokenKey(entity)}, entity)]
      [] call = "WriteAccessToken" ->
            [s EXCEPT !.accessTokens =
                Put(@, {x \in @ : AccessTokenKey(x) = AccessTokenKey(entity)}, entity)]
      [] call = "WriteIDToken" ->
            [s EXCEPT !.idTokens =
                Put(@, {x \in @ : IDTokenKey(x) = IDTokenKey(entity)}, entity)]
      [] call = "WriteAccount" ->
            [s EXCEPT !.accounts =
                Put(@, {x \in @ : AccountKey(x) = AccountKey(entity)}, entity)]
      [] call = "WriteAppMetadata" ->
            [s EXCEPT !.appMetadata =
                Put(@, {x \in @ : AppMetadataKey(x) = AppMetadataKey(entity)}, entity)]

InAliases(environment, aliases) ==
    \E i \in 1..Len(aliases) : aliases[i] = environment

Found(matches) == IF matches = {} THEN {Nil} ELSE matches

\* Each Read<X> is the set of results the storage manager may give: nil
\* when nothing matches, else any one matching entity (entities stored under
\* different aliases of the set are interchangeable to it).
ReadAccessToken(s, homeAccountID, aliases, realm, clientID, scopes) ==
    Found({at \in s.accessTokens :
              /\ at.HomeAccountID = homeAccountID
              /\ InAliases(at.Environment, aliases)
              /\ at.Realm = realm
              /\ at.ClientID = clientID
              /\ at.Scopes = ConcatenateScopes(scopes)})

ReadRefreshToken(s, homeAccountID, aliases, familyID, clientID) ==
    Found({rt \in s.refreshTokens :
              /\ rt.HomeAccountID = homeAccountID
              /\ InAliases(rt.Environment, aliases)
              /\ IF familyID # "" THEN rt.FamilyID = familyID
                 ELSE rt.FamilyID = "" /\ rt.ClientID = clientID})

ReadIDToken(s, homeAccountID, aliases, realm, clientID) ==
    Found({it \in s.idTokens :
              /\ it.HomeAccountID = homeAccountID
              /\ InAliases(it.Environment, aliases)
              /\ it.Realm = realm
              /\ it.ClientID = clientID})

ReadAccount(s, homeAccountID, aliases, realm) ==
    Found({a \in s.accounts :
              /\ a.HomeAccountID = homeAccountID
              /\ InAliases(a.Environment, aliases)
              /\ a.Realm = realm})

ReadAppMetadata(s, aliases, clientID) ==
    Found({am \in s.appMetadata :
              /\ InAliases(am.Environment, aliases)
              /\ am.ClientID = clientID})

\* idTokenJwt.GetLocalAccountID(): the oid claim, else the subject.
GetLocalAccountID(idToken) ==
    IF idToken.Oid # "" THEN idToken.Oid ELSE idToken.Subject

\* DeleteCredentials removes the credentials of the given types stored for
\* (homeAccountID, environment, clientID).
DeleteCredentials(s, homeAccountID, environment, realm, clientID, familyID, target, types) ==
    LET hit(x) == /\ x.HomeAccountID = homeAccountID
                  /\ x.Environment = environment
                  /\ x.ClientID = clientID
    IN  [s EXCEPT
           !.refreshTokens =
               IF CredentialTypeOauth2RefreshToken \in types
               THEN {x \in @ : ~hit(x)} ELSE @,
           !.accessTokens =
               IF CredentialTypeOauth2AccessToken \in types
               THEN {x \in @ : ~(hit(x) /\ x.Realm = realm /\ x.Scopes = target)}
               ELSE @]

(***************************************************************************)
(* Inputs.                                                                 *)
(***************************************************************************)
ComHost == "login.contoso.com"
NetHost == "login.contoso.net"

AllAuthParameters ==
    [HomeaccountID : {"", "u1.t1"},
     AuthorityInfo : [Host : {"", ComHost, NetHost},
                      UserRealmURIPrefix : {"", "r1"},
                      AuthorityType : {"MSSTS"}],
     ClientID : {"", "A", "B"},
     Scopes : {<<>>, <<"s1">>}]

EmptyKeyCount(p) ==
    Cardinality({k \in 1..5 :
        <<p.HomeaccountID = "", p.AuthorityInfo.Host = "",
          p.AuthorityInfo.UserRealmURIPrefix = "", p.ClientID = "",
          p.Scopes = <<>>>>[k]})

FullRequests == {p \in AllAuthParameters : EmptyKeyCount(p) = 0}

\* One client on either host of the alias set.
Requests == {p \in FullRequests : p.ClientID = "A"}

\* Two clients of one family on one host.
FamilyRequests == {p \in FullRequests : p.AuthorityInfo.Host = ComHost}

\* One client on one host.
FaultRequests == {p \in Requests : p.AuthorityInfo.Host = ComHost}

\* One client on one host, with some of the key fields empty.
KeyRequests ==
    {p \in AllAuthParameters :
        /\ EmptyKeyCount(p) <= MaxEmptyKeys
        /\ p.AuthorityInfo.Host \in {"", ComHost}
        /\ p.ClientID \in {"", "A"}}

\* What GetMetadataEntry may give: an error, or a list of aliases.
MetadataOutcomes ==
    {[err |-> ErrMetadata, Aliases |-> <<>>]} \cup
    {[err |-> ErrNil, Aliases |-> a] :
        a \in {<<>>, <<ComHost>>, <<ComHost, NetHost>>}}

ExpiryOffsets == {0, ExpiryBuffer, ExpiryBuffer + 1, ExpiryBuffer + 1 + MaxTick}

ClientInfos == {[UID |-> u, UTID |-> t] : u \in {"", "u1"}, t \in {"", "t1"}}

FullClientInfo == [UID |-> "u1", UTID |-> "t1"]

\* The n-th token response of the identity provider, received at time now:
\* its secrets are fresh.
Response(n, now, clientInfo, scopes, hasAT, offset, hasRT, familyID) ==
    [ClientInfo |-> clientInfo,
     GrantedScopes |-> scopes,
     AccessToken |-> IF hasAT THEN "at" \o ToString(n) ELSE "",
     ExpiresOn |-> now + offset,
     ExtExpiresOn |-> now + offset,
     RefreshToken |-> IF hasRT THEN "rt" \o ToString(n) ELSE "",
     FamilyID |-> familyID,
     IDToken |-> [RawToken |-> "jwt" \o ToString(n), Oid |-> "",
                  Subject |-> "sub1",
                  PreferredUsername |-> "user" \o ToString(n)]]

\* Responses that differ in their access token.
TokenResponses(n, now) ==
    {Response(n, now, FullClientInfo, <<"s1">>, TRUE, d, TRUE, "") : d \in ExpiryOffsets}
    \cup {Response(n, now, FullClientInfo, <<"s1">>, FALSE, 0, TRUE, "")}

\* Responses that differ in their refresh token and family id.
FamilyResponses(n, now) ==
    {Response(n, now, FullClientInfo, <<"s1">>, TRUE, ExpiryBuffer + 1, hasRT, f) :
        hasRT \in BOOLEAN, f \in {"", "F"}}

\* Responses that differ in the tokens they carry.
FaultResponses(n, now) ==
    {Response(n, now, FullClientInfo, <<"s1">>, hasAT, IF valid THEN ExpiryBuffer + 1 ELSE 0, hasRT, "") :
        hasAT \in BOOLEAN, valid \in BOOLEAN, hasRT \in BOOLEAN}

\* Responses that differ in their key fields.
KeyResponses(n, now) ==
    {Response(n, now, c, sc, TRUE, ExpiryBuffer + 1, TRUE, "") :
        c \in ClientInfos, sc \in {<<>>, <<"s1">>}}

NoFault == "none"

Faults == {NoFault} \cup {WriteCalls[i] : i \in 1..Len(WriteCalls)}

Idle ==
    [op |-> "none", now |-> 0, args |-> <<>>, tokenResponse |-> Nil,
     metadata |-> Nil, calls |-> <<>>, err |-> ErrNil, value |-> Nil]

\* The goroutines that may call CacheTokenResponse at the same time.
Goroutines == {1, 2}

NotRunning == [pc |-> "idle"]

NoneRunning == [g \in Goroutines |-> NotRunning]

(***************************************************************************)
(* The cache manager.                                                      *)
(***************************************************************************)
\* The caller builds the request of its next call.
NewRequest(p) ==
    /\ p # authParameters
    /\ authParameters' = p
    /\ last' = Idle
    /\ UNCHANGED <<clock, store, issued, running>>

\* The wall clock moves (forward, or back when it is adjusted).
Tick(t) ==
    /\ t # clock
    /\ clock' = t
    /\ last' = Idle
    /\ UNCHANGED <<store, authParameters, issued, running>>

GetAllAccounts ==
    /\ last' = [Idle EXCEPT !.op = "GetAllAccounts", !.now = clock,
                    !.calls = <<[call |-> "ReadAllAccounts", arg |-> <<>>, err |-> ErrNil]>>,
                    !.value = store.accounts]
    /\ UNCHANGED <<clock, store, authParameters, issued, running>>

\* The key check of TryReadCache without its test of the scopes.
MissingReadKey_NoScopes(homeAccountID, aliases, realm, clientID, scopes) ==
    \/ homeAccountID = ""
    \/ Len(aliases) = 0
    \/ realm = ""
    \/ clientID = ""

\* The key check of TryReadCache.
MissingReadKey(homeAccountID, aliases, realm, clientID, scopes) ==
    \/ homeAccountID = ""
    \/ Len(aliases) = 0
    \/ realm = ""
    \/ clientID = ""
    \/ Len(scopes) = 0

\* TryReadCache returning the access token it read as it is.
ValidatedAccessToken_NoCheck(accessToken, now) == accessToken

\* The access token TryReadCache returns for the one it read.
ValidatedAccessToken(accessToken, now) ==
    IF accessToken # Nil
    THEN IF ~isAccessTokenValid(accessToken, now) THEN Nil ELSE accessToken
    ELSE accessToken

\* TryReadCache ignoring the app metadata it read.
FamilyIDOf_ClientOnly(appMetadata) == ""

\* The family id TryReadCache looks the refresh token up with.
FamilyIDOf(appMetadata) ==
    IF appMetadata = Nil THEN "" ELSE appMetadata.FamilyID

\* The read calls given only the first of the aliases.
AliasesOf_First(metadata) ==
    IF metadata.Aliases = <<>> THEN <<>> ELSE <<Head(metadata.Aliases)>>

\* The environments the read calls are given: metadata.Aliases.
AliasesOf(metadata) == metadata.Aliases

\* The storage content after a read that drops the access tokens it judges
\* invalid.
StoreAfterRead_Evicting(s, now) ==
    [s EXCEPT !.accessTokens = {at \in @ : isAccessTokenValid(at, now)}]

\* The storage content after TryReadCache: accessToken = nil sets the local
\* variable only.
StoreAfterRead(s, now) == s

ReadCall(call, arg) == [call |-> call, arg |-> arg, err |-> ErrNil]

TryReadCache(metadata) ==
    LET homeAccountID == authParameters.HomeaccountID
        realm == authParameters.AuthorityInfo.UserRealmURIPrefix
        clientID == authParameters.ClientID
        scopes == authParameters.Scopes
        aliases == AliasesOf(metadata)
        done == [Idle EXCEPT !.op = "TryReadCache", !.now = clock,
                             !.metadata = metadata]
    IN  /\ IF metadata.err # ErrNil
           THEN last' = [done EXCEPT !.err = metadata.err]
           ELSE IF MissingReadKey(homeAccountID, aliases, realm, clientID, scopes)
           THEN last' = [done EXCEPT !.err = ErrMissingKeyRead]
           ELSE \E accessToken \in ReadAccessToken(store, homeAccountID, aliases, realm, clientID, scopes),
                   idToken \in ReadIDToken(store, homeAccountID, aliases, realm, clientID),
                   appMetadata \in ReadAppMetadata(store, aliases, clientID),
                   account \in ReadAccount(store, homeAccountID, aliases, realm) :
                  LET familyID == FamilyIDOf(appMetadata)
                  IN  \E refreshToken \in ReadRefreshToken(store, homeAccountID, aliases, familyID, clientID) :
                         last' = [done EXCEPT
                            !.calls =
                               <<ReadCall("ReadAccessToken", <<homeAccountID, aliases, realm, clientID, scopes>>),
                                 ReadCall("ReadIDToken", <<homeAccountID, aliases, realm, clientID>>),
                                 ReadCall("ReadAppMetadata", <<aliases, clientID>>),
                                 ReadCall("ReadRefreshToken", <<homeAccountID, aliases, familyID, clientID>>),
                                 ReadCall("ReadAccount", <<homeAccountID, aliases, realm>>)>>,
                            !.value = CreateStorageTokenResponse(
                                          ValidatedAccessToken(accessToken, clock),
                                          refreshToken, idToken, account)]
        /\ store' = StoreAfterRead(store, clock)
        /\ UNCHANGED <<clock, authParameters, issued, running>>

\* The key check of CacheTokenResponse without its test of the target.
MissingWriteKey_NoTarget(homeAccountID, environment, realm, clientID, target) ==
    \/ homeAccountID = ""
    \/ environment = ""
    \/ realm = ""
    \/ clientID = ""

\* The key check of CacheTokenResponse.
MissingWriteKey(homeAccountID, environment, realm, clientID, target) ==
    \/ homeAccountID = ""
    \/ environment = ""
    \/ realm = ""
    \/ clientID = ""
    \/ target = ""

\* A write that is not made.
WriteCall_Dropped(r, call, entity, fault) == r

\* err = m.storageManager.Write<X>(entity): the storage content, the calls
\* made and err after it.  The storage manager fails the call named by fault.
WriteCall(r, call, entity, fault) ==
    LET e == IF fault = call THEN StorageError(call) ELSE ErrNil
    IN  [store |-> IF e = ErrNil THEN StorageWrite(r.store, call, entity) ELSE r.store,
         calls |-> Append(r.calls, [call |-> call, arg |-> entity, err |-> e]),
         err |-> e]

\* m.storageManager.WriteIDToken(idToken): what it returns is dropped, err
\* keeps the value it had.
WriteCallUnchecked(r, call, entity, fault) ==
    [WriteCall(r, call, entity, fault) EXCEPT !.err = r.err]

\* The write steps of CacheTokenResponse, after its key check.
WriteTokenResponse(s, homeAccountID, environment, realm, clientID, target, authorityType, tokenResponse, now, fault) ==
    LET cachedAt == now
        r0 == [store |-> s, calls |-> <<>>, err |-> ErrNil]
        refreshToken ==
            CreateRefreshTokenCacheItem(homeAccountID, environment, clientID,
                tokenResponse.RefreshToken, tokenResponse.FamilyID)
        r1 == IF HasRefreshToken(tokenResponse)
              THEN WriteCall(r0, "WriteRefreshToken", refreshToken, fault)
              ELSE r0
        accessToken ==
            CreateAccessTokenCacheItem(homeAccountID, environment, realm, clientID,
                cachedAt, tokenResponse.ExpiresOn, tokenResponse.ExtExpiresOn,
                target, tokenResponse.AccessToken)
        r2 == IF HasAccessToken(tokenResponse) /\ isAccessTokenValid(accessToken, now)
              THEN WriteCall(r1, "WriteAccessToken", accessToken, fault)
              ELSE r1
        idTokenJwt == tokenResponse.IDToken
        idToken ==
            CreateIDTokenCacheItem(homeAccountID, environment, realm, clientID,
                idTokenJwt.RawToken)
        r3 == WriteCallUnchecked(r2, "WriteIDToken", idToken, fault)
        account ==
            CreateAccount(homeAccountID, environment, realm,
                GetLocalAccountID(idTokenJwt), authorityType,
                idTokenJwt.PreferredUsername)
        r4 == WriteCall(r3, "WriteAccount", account, fault)
        appMetadata == CreateAppMetadata(tokenResponse.FamilyID, clientID, environment)
        r5 == WriteCall(r4, "WriteAppMetadata", appMetadata, fault)
        return(r, value) ==
            [store |-> r.store, calls |-> r.calls, err |-> r.err, value |-> value]
    IN  IF r1.err # ErrNil THEN return(r1, Nil)
        ELSE IF r2.err # ErrNil THEN return(r2, Nil)
        ELSE IF r3.err # ErrNil THEN return(r3, Nil)
        ELSE IF r4.err # ErrNil THEN return(r4, Nil)
        ELSE IF r5.err # ErrNil THEN return(r5, Nil)
        ELSE return(r5, account)

\* The request left as the caller passed it.
RequestAfterCache_Kept(p, homeAccountID) == p

\* authParameters.HomeaccountID = tokenResponse.GetHomeAccountIDFromClientInfo()
RequestAfterCache(p, homeAccountID) == [p EXCEPT !.HomeaccountID = homeAccountID]

CacheTokenResponse(tokenResponse, fault) ==
    LET homeAccountID == GetHomeAccountIDFromClientInfo(tokenResponse)
        environment == authParameters.AuthorityInfo.Host
        realm == authParameters.AuthorityInfo.UserRealmURIPrefix
        clientID == authParameters.ClientID
        target == ConcatenateScopes(tokenResponse.GrantedScopes)
        out == IF MissingWriteKey(homeAccountID, environment, realm, clientID, target)
               THEN [store |-> store, calls |-> <<>>, err |-> ErrMissingKeyWrite,
                     value |-> Nil]
               ELSE WriteTokenResponse(store, homeAccountID, environment, realm,
                        clientID, target, authParameters.AuthorityInfo.AuthorityType,
                        tokenResponse, clock, fault)
    IN  /\ issued < MaxResponses
        /\ issued' = issued + 1
        /\ authParameters' = RequestAfterCache(authParameters, homeAccountID)
        /\ store' = out.store
        /\ last' = [Idle EXCEPT !.op = "CacheTokenResponse", !.now = clock,
                        !.tokenResponse = tokenResponse, !.calls = out.calls,
                        !.err = out.err, !.value = out.value]
        /\ UNCHANGED <<clock, running>>

\* What DeleteCredentials may give: an error, or a status.
DeleteOutcomes ==
    {[err |-> StorageError("DeleteCredentials"), StatusType |-> OperationStatusTypeFailure],
     [err |-> ErrNil, StatusType |-> OperationStatusTypeFailure],
     [err |-> ErrNil, StatusType |-> OperationStatusTypeSuccess]}

\* The keys of DeleteCachedRefreshToken taken from the request, as the todo
\* in the source has them.
RefreshTokenDeleteKeys_FromRequest(p) ==
    [homeAccountID |-> p.HomeaccountID, environment |-> p.AuthorityInfo.Host,
     clientID |-> p.ClientID]

\* The keys of DeleteCachedRefreshToken: home account id and environment are
\* the empty string.
RefreshTokenDeleteKeys(p) ==
    [homeAccountID |-> "", environment |-> "", clientID |-> p.ClientID]

DeleteCachedRefreshToken(outcome) ==
    LET homeAccountID == RefreshTokenDeleteKeys(authParameters).homeAccountID
        environment == RefreshTokenDeleteKeys(authParameters).environment
        clientID == RefreshTokenDeleteKeys(authParameters).clientID
        done == [Idle EXCEPT !.op = "DeleteCachedRefreshToken", !.now = clock]
        types == {CredentialTypeOauth2RefreshToken}
    IN  /\ IF homeAccountID = "" \/ environment = "" \/ clientID = ""
           THEN /\ last' = [done EXCEPT !.err = ErrMissingKeyDelete]
                /\ store' = store
           ELSE /\ last' = [done EXCEPT
                       !.calls = <<[call |-> "DeleteCredentials",
                                    arg |-> <<"", homeAccountID, environment, "", clientID, "", "", types>>,
                                    err |-> outcome.err]>>]
                /\ store' = IF outcome.err = ErrNil /\ outcome.StatusType = OperationStatusTypeSuccess
                            THEN DeleteCredentials(store, homeAccountID, environment, "", clientID, "", "", types)
                            ELSE store
        /\ UNCHANGED <<clock, authParameters, issued, running>>

\* deleteCachedAccessToken returning nil where DeleteCredentials failed, as
\* DeleteCachedRefreshToken does.
DeleteAccessTokenError_Swallowed(err) == ErrNil

\* if err != nil { return err }
DeleteAccessTokenError(err) == err

\* The credential types deleteCachedAccessToken asks to delete.
AccessTokenTypes == {CredentialTypeOauth2AccessToken}

deleteCachedAccessToken(homeAccountID, environment, realm, clientID, target, outcome) ==
    LET emptyCorrelationID == ""
        emptyFamilyID == ""
    IN  /\ last' = [Idle EXCEPT
               !.op = "deleteCachedAccessToken", !.now = clock,
               !.args = <<homeAccountID, environment, realm, clientID, target>>,
               !.calls = <<[call |-> "DeleteCredentials",
                            arg |-> <<emptyCorrelationID, homeAccountID, environment, realm,
                                      clientID, emptyFamilyID, target, AccessTokenTypes>>,
                            err |-> outcome.err,
                            status |-> outcome.StatusType]>>,
               !.err = DeleteAccessTokenError(outcome.err)]
        /\ store' = IF outcome.err = ErrNil /\ outcome.StatusType = OperationStatusTypeSuccess
                    THEN DeleteCredentials(store, homeAccountID, environment, realm,
                             clientID, emptyFamilyID, target, AccessTokenTypes)
                    ELSE store
        /\ UNCHANGED <<clock, authParameters, issued, running>>

(***************************************************************************)
(* CacheTokenResponse run by several goroutines on one cache manager.  The *)
(* cache manager has no mutex: between two storage calls of one goroutine  *)
(* the other may make any of its own.  A goroutine's locals are in         *)
(* running[g]; last.calls is the storage calls in the order they happened, *)
(* each with the goroutine that made it.                                   *)
(***************************************************************************)
\* The statement after the one at pc.
NextStatement(pc) ==
    CASE pc = "WriteRefreshToken" -> "WriteAccessToken"
      [] pc = "WriteAccessToken" -> "WriteIDToken"
      [] pc = "WriteIDToken" -> "WriteAccount"
      [] pc = "WriteAccount" -> "WriteAppMetadata"
      [] pc = "WriteAppMetadata" -> "done"

\* calls with the calls made after the first n of them marked as made by g.
MadeBy(g, calls, n) ==
    [i \in 1..Len(calls) |->
        IF i <= n THEN calls[i]
        ELSE [call |-> calls[i].call, arg |-> calls[i].arg, err |-> calls[i].err, by |-> g]]

\* Goroutine g enters CacheTokenResponse and runs it up to the first storage
\* call.
BeginCacheTokenResponse(g, tokenResponse) ==
    LET homeAccountID == GetHomeAccountIDFromClientInfo(tokenResponse)
        environment == authParameters.AuthorityInfo.Host
        realm == authParameters.AuthorityInfo.UserRealmURIPrefix
        clientID == authParameters.ClientID
        target == ConcatenateScopes(tokenResponse.GrantedScopes)
        locals == [pc |-> "WriteRefreshToken", tokenResponse |-> tokenResponse,
                   homeAccountID |-> homeAccountID, environment |-> environment,
                   realm |-> realm, clientID |-> clientID, target |-> target,
                   authorityType |-> authParameters.AuthorityInfo.AuthorityType,
                   cachedAt |-> clock, err |-> ErrNil, value |-> Nil]
    IN  /\ running[g].pc = "idle"
        /\ issued < MaxResponses
        /\ issued' = issued + 1
        /\ authParameters' = RequestAfterCache(authParameters, homeAccountID)
        /\ running' = [running EXCEPT ![g] =
               IF MissingWriteKey(homeAccountID, environment, realm, clientID, target)
               THEN [locals EXCEPT !.pc = "done", !.err = ErrMissingKeyWrite]
               ELSE locals]
        /\ last' = [last EXCEPT !.op = "CacheTokenResponse"]
        /\ UNCHANGED <<clock, store>>

\* Goroutine g runs the statement it is at: one storage call, if the
\* statement makes it, and the test of err that follows.
StepCacheTokenResponse(g) ==
    LET c == running[g]
        tokenResponse == c.tokenResponse
        idTokenJwt == tokenResponse.IDToken
        r0 == [store |-> store, calls |-> last.calls, err |-> c.err]
        refreshToken ==
            CreateRefreshTokenCacheItem(c.homeAccountID, c.environment, c.clientID,
                tokenResponse.RefreshToken, tokenResponse.FamilyID)
        accessToken ==
            CreateAccessTokenCacheItem(c.homeAccountID, c.environment, c.realm,
                c.clientID, c.cachedAt, tokenResponse.ExpiresOn,
                tokenResponse.ExtExpiresOn, c.target, tokenResponse.AccessToken)
        idToken ==
            CreateIDTokenCacheItem(c.homeAccountID, c.environment, c.realm,
                c.clientID, idTokenJwt.RawToken)
        account ==
            CreateAccount(c.homeAccountID, c.environment, c.realm,
                GetLocalAccountID(idTokenJwt), c.authorityType,
                idTokenJwt.PreferredUsername)
        appMetadata == CreateAppMetadata(tokenResponse.FamilyID, c.clientID, c.environment)
        r == CASE c.pc = "WriteRefreshToken" ->
                    IF HasRefreshToken(tokenResponse)
                    THEN WriteCall(r0, "WriteRefreshToken", refreshToken, NoFault)
                    ELSE r0
               [] c.pc = "WriteAccessToken" ->
                    IF HasAccessToken(tokenResponse) /\ isAccessTokenValid(accessToken, clock)
                    THEN WriteCall(r0, "WriteAccessToken", accessToken, NoFault)
                    ELSE r0
               [] c.pc = "WriteIDToken" ->
                    WriteCallUnchecked(r0, "WriteIDToken", idToken, NoFault)
               [] c.pc = "WriteAccount" ->
                    WriteCall(r0, "WriteAccount", account, NoFault)
               [] c.pc = "WriteAppMetadata" ->
                    WriteCall(r0, "WriteAppMetadata", appMetadata, NoFault)
    IN  /\ c.pc \notin {"idle", "done"}
        /\ store' = r.store
        /\ last' = [last EXCEPT !.calls = MadeBy(g, r.calls, Len(last.calls))]
        /\ running' = [running EXCEPT ![g] =
               IF r.err # ErrNil
               THEN [c EXCEPT !.pc = "done", !.err = r.err]
               ELSE [c EXCEPT !.pc = NextStatement(c.pc),
                              !.value = IF c.pc = "WriteAppMetadata" THEN account ELSE Nil]]
        /\ UNCHANGED <<clock, authParameters, issued>>

\* A cache restored from persistence with an access token this code did not
\* write: its expiry is no integer.
ForeignStore ==
    [EmptyStore EXCEPT !.accessTokens =
        {[HomeAccountID |-> "u1.t1", Environment |-> ComHost, Realm |-> "r1",
          ClientID |-> "A", CachedAt |-> FormatInt(BaseTime),
          ExpiresOnUnixTimestamp |-> <<>>,
          ExtendedExpiresOnUnixTimestamp |-> <<>>,
          Scopes |-> "s1", Secret |-> "at0"]}]

InitOver(requests, stores) ==
    /\ clock \in Times
    /\ store \in stores
    /\ authParameters \in requests
    /\ issued = 0
    /\ last = Idle
    /\ running = NoneRunning

(***************************************************************************)
(* Spec: one client caching and reading tokens on the hosts of one alias   *)
(* set while the clock moves; the storage manager's writes succeed.        *)
(***************************************************************************)
Init == InitOver(Requests, {EmptyStore})

Next ==
    \/ \E p \in Requests : NewRequest(p)
    \/ \E t \in Times : Tick(t)
    \/ GetAllAccounts
    \/ \E metadata \in MetadataOutcomes : TryReadCache(metadata)
    \/ \E tokenResponse \in TokenResponses(issued + 1, clock) :
          CacheTokenResponse(tokenResponse, NoFault)
    \/ \E outcome \in DeleteOutcomes : DeleteCachedRefreshToken(outcome)

Spec == Init /\ [][Next]_vars

(***************************************************************************)
(* SpecRestored: as Spec, starting from an empty cache or from a restored  *)
(* one that holds a foreign access token.                                  *)
(***************************************************************************)
InitRestored == InitOver(Requests, {EmptyStore, ForeignStore})

SpecRestored == InitRestored /\ [][Next]_vars

(***************************************************************************)
(* SpecFamily: two clients, with and without a family id, on one host.     *)
(***************************************************************************)
InitFamily == InitOver(FamilyRequests, {EmptyStore})

NextFamily ==
    \/ \E p \in FamilyRequests : NewRequest(p)
    \/ GetAllAccounts
    \/ \E metadata \in MetadataOutcomes : TryReadCache(metadata)
    \/ \E tokenResponse \in FamilyResponses(issued + 1, clock) :
          CacheTokenResponse(tokenResponse, NoFault)
    \/ \E outcome \in DeleteOutcomes : DeleteCachedRefreshToken(outcome)

SpecFamily == InitFamily /\ [][NextFamily]_vars

(***************************************************************************)
(* SpecFaults: one client on one host; the storage manager may fail any    *)
(* one write of a call.                                                    *)
(***************************************************************************)
InitFaults == InitOver(FaultRequests, {EmptyStore})

NextFaults ==
    \/ GetAllAccounts
    \/ \E metadata \in MetadataOutcomes : TryReadCache(metadata)
    \/ \E tokenResponse \in FaultResponses(issued + 1, clock), fault \in Faults :
          CacheTokenResponse(tokenResponse, fault)
    \/ \E outcome \in DeleteOutcomes : DeleteCachedRefreshToken(outcome)

SpecFaults == InitFaults /\ [][NextFaults]_vars

(***************************************************************************)
(* SpecKeys: requests and responses with empty key fields.                 *)
(***************************************************************************)
InitKeys == InitOver(KeyRequests, {EmptyStore})

NextKeys ==
    \/ \E p \in KeyRequests : NewRequest(p)
    \/ GetAllAccounts
    \/ \E metadata \in MetadataOutcomes : TryReadCache(metadata)
    \/ \E tokenResponse \in KeyResponses(issued + 1, clock) :
          CacheTokenResponse(tokenResponse, NoFault)
    \/ \E outcome \in DeleteOutcomes : DeleteCachedRefreshToken(outcome)

SpecKeys == InitKeys /\ [][NextKeys]_vars

(***************************************************************************)
(* SpecDelete: one client on one host, with the unexported                 *)
(* deleteCachedAccessToken called on keys some of which may be empty.      *)
(***************************************************************************)
InitDelete == InitOver(FaultRequests, {EmptyStore})

NextDelete ==
    \/ GetAllAccounts
    \/ \E metadata \in MetadataOutcomes : TryReadCache(metadata)
    \/ \E tokenResponse \in FaultResponses(issued + 1, clock) :
          CacheTokenResponse(tokenResponse, NoFault)
    \/ \E outcome \in DeleteOutcomes : DeleteCachedRefreshToken(outcome)
    \/ \E homeAccountID \in {"", "u1.t1"}, environment \in {"", ComHost},
          clientID \in {"", "A"}, outcome \in DeleteOutcomes :
          deleteCachedAccessToken(homeAccountID, environment, "r1", clientID, "s1", outcome)

SpecDelete == InitDelete /\ [][NextDelete]_vars

(***************************************************************************)
(* SpecRequest: requests and responses with empty key fields, and a        *)
(* storage manager that may fail any one write of a call.                  *)
(***************************************************************************)
InitRequest == InitOver(KeyRequests, {EmptyStore})

NextRequest ==
    \/ \E p \in KeyRequests : NewRequest(p)
    \/ \E metadata \in MetadataOutcomes : TryReadCache(metadata)
    \/ \E tokenResponse \in KeyResponses(issued + 1, clock), fault \in Faults :
          CacheTokenResponse(tokenResponse, fault)

SpecRequest == InitRequest /\ [][NextRequest]_vars

(***************************************************************************)
(* SpecConcurrent: two goroutines cache one response each for the same     *)
(* request, their storage calls interleaved in any order.                  *)
(***************************************************************************)
InitConcurrent == InitOver(FaultRequests, {EmptyStore})

NextConcurrent ==
    \/ \E g \in Goroutines, tokenResponse \in FaultResponses(issued + 1, clock) :
          BeginCacheTokenResponse(g, tokenResponse)
    \/ \E g \in Goroutines : StepCacheTokenResponse(g)

SpecConcurrent == InitConcurrent /\ [][NextConcurrent]_vars

(***************************************************************************)
(* SpecValidity: isAccessTokenValid applied to access tokens whose         *)
(* timestamps are taken from decimal texts around the two thresholds and   *)
(* from texts that are no integers.                                        *)
(***************************************************************************)
ProbeTimes ==
    ((BaseTime - 1) .. (BaseTime + MaxTick + 1))
    \cup ((BaseTime + ExpiryBuffer) .. (BaseTime + MaxTick + ExpiryBuffer + 1))

\* A text with what it denotes: parses says whether it is a decimal integer.
TimestampTexts ==
    {[text |-> FormatInt(t), parses |-> TRUE, int |-> t] : t \in ProbeTimes}
    \cup {[text |-> <<"+">> \o FormatInt(BaseTime), parses |-> TRUE, int |-> BaseTime],
          [text |-> FormatInt(0 - BaseTime), parses |-> TRUE, int |-> 0 - BaseTime],
          [text |-> <<>>, parses |-> FALSE, int |-> 0],
          [text |-> <<"-">>, parses |-> FALSE, int |-> 0],
          [text |-> <<"x">>, parses |-> FALSE, int |-> 0],
          [text |-> FormatInt(BaseTime) \o <<"x">>, parses |-> FALSE, int |-> 0],
          [text |-> <<" ">> \o FormatInt(BaseTime), parses |-> FALSE, int |-> 0]}

CheckAccessToken(cachedAt, expiresOn) ==
    LET accessToken ==
            [HomeAccountID |-> "u1.t1", Environment |-> ComHost, Realm |-> "r1",
             ClientID |-> "A", CachedAt |-> cachedAt.text,
             ExpiresOnUnixTimestamp |-> expiresOn.text,
             ExtendedExpiresOnUnixTimestamp |-> expiresOn.text,
             Scopes |-> "s1", Secret |-> "at1"]
    IN  /\ last' = [Idle EXCEPT !.op = "isAccessTokenValid", !.now = clock,
                        !.value = [cachedAt |-> cachedAt, expiresOn |-> expiresOn,
                                   valid |-> isAccessTokenValid(accessToken, clock)]]
        /\ UNCHANGED <<clock, store, authParameters, issued, running>>

NextValidity ==
    \/ \E t \in Times : Tick(t)
    \/ \E cachedAt \in TimestampTexts, expiresOn \in TimestampTexts :
          CheckAccessToken(cachedAt, expiresOn)

InitValidity == InitOver(FaultRequests, {EmptyStore})

SpecValidity == InitValidity /\ [][NextValidity]_vars

\* The rule: isAccessTokenValid is true exactly when both timestamps are decimal
\* integers, cached-at is not after now and expires-on is more than 300
\* seconds after now.
C2_ValidIffRule ==
    last.op = "isAccessTokenValid" =>
        (last.value.valid <=>
            /\ last.value.cachedAt.parses
            /\ last.value.expiresOn.parses
            /\ last.value.cachedAt.int <= last.now
            /\ last.value.expiresOn.int > last.now + 300)

\* The boundaries: expires-on = now + 300 is invalid and now + 301 is
\* valid; cached-at = now is valid and now + 1 is invalid.
C2_Boundaries ==
    last.op = "isAccessTokenValid" =>
        LET c == last.value.cachedAt
            e == last.value.expiresOn
        IN  /\ (c.parses /\ e.parses /\ e.int = last.now + 300) => ~last.value.valid
            /\ (c.parses /\ e.parses /\ c.int = last.now /\ e.int = last.now + 301)
                   => last.value.valid
            /\ (c.parses /\ e.parses /\ c.int = last.now + 1) => ~last.value.valid
            /\ (~c.parses \/ ~e.parses) => ~last.value.valid

\* C2: isAccessTokenValid is true exactly when the rule holds, and so at
\* each of the boundaries.
C2_Theorem == C2_ValidIffRule /\ C2_Boundaries

\* A token cached now that expires 301 seconds from now was judged valid.
C2_Witness ==
    /\ last.op = "isAccessTokenValid"
    /\ last.value.valid
    /\ last.value.cachedAt.int = last.now
    /\ last.value.expiresOn.int = last.now + 301

(***************************************************************************)
(* Claims about the read and write paths.                                  *)
(***************************************************************************)
\* The validity rule, stated on the stored texts.
TokenRule(accessToken, now) ==
    LET cachedAt == ParseInt(accessToken.CachedAt)
        expiresOn == ParseInt(accessToken.ExpiresOnUnixTimestamp)
    IN  /\ cachedAt.ok
        /\ expiresOn.ok
        /\ cachedAt.val <= now
        /\ expiresOn.val > now + 300

ReadSucceeded == last.op = "TryReadCache" /\ last.err = ErrNil

\* The stored access tokens that the last TryReadCache asked for.
AccessTokensAskedFor ==
    {at \in store.accessTokens :
        /\ at.HomeAccountID = authParameters.HomeaccountID
        /\ InAliases(at.Environment, last.metadata.Aliases)
        /\ at.Realm = authParameters.AuthorityInfo.UserRealmURIPrefix
        /\ at.ClientID = authParameters.ClientID
        /\ at.Scopes = ConcatenateScopes(authParameters.Scopes)}

\* C1: the access token of a successful TryReadCache is absent or a stored
\* token that satisfies the validity rule at the time of the read; when all
\* the stored tokens asked for fail the rule, it is absent.
C1_ReadTokenValid ==
    ReadSucceeded =>
        /\ \/ last.value.accessToken = Nil
           \/ /\ last.value.accessToken \in store.accessTokens
              /\ TokenRule(last.value.accessToken, last.now)
        /\ (\A at \in AccessTokensAskedFor : ~TokenRule(at, last.now))
               => last.value.accessToken = Nil

\* A stored token that fails the rule was asked for and reported absent.
C1_Witness ==
    /\ ReadSucceeded
    /\ AccessTokensAskedFor # {}
    /\ \A at \in AccessTokensAskedFor : ~TokenRule(at, last.now)
    /\ last.value.accessToken = Nil

\* The call just made is a successful CacheTokenResponse whose response
\* carries an access token that is valid at the time of the call.
CachedValidToken ==
    /\ last.op = "CacheTokenResponse"
    /\ last.err = ErrNil
    /\ last.tokenResponse.AccessToken # ""
    /\ last.tokenResponse.ExpiresOn > last.now + 300

\* The call just made is a CacheTokenResponse whose response carries an
\* access token that expires within 300 seconds of the call.
CachedExpiredToken ==
    /\ last.op = "CacheTokenResponse"
    /\ last.tokenResponse.AccessToken # ""
    /\ last.tokenResponse.ExpiresOn <= last.now + 300

\* The step is a TryReadCache at the time of the call before it, with the
\* request that call left, the scopes the response granted and an alias set
\* that holds the request's host.
ReadsBack ==
    /\ last'.op = "TryReadCache"
    /\ last'.now = last.now
    /\ authParameters' = authParameters
    /\ authParameters.HomeaccountID = GetHomeAccountIDFromClientInfo(last.tokenResponse)
    /\ authParameters.Scopes = last.tokenResponse.GrantedScopes
    /\ last'.metadata.err = ErrNil
    /\ InAliases(authParameters.AuthorityInfo.Host, last'.metadata.Aliases)

\* The access tokens stored for the request's keys under the aliases of the
\* read that the step makes.
StoredForRead ==
    {at \in store.accessTokens :
        /\ at.HomeAccountID = authParameters.HomeaccountID
        /\ InAliases(at.Environment, last'.metadata.Aliases)
        /\ at.Realm = authParameters.AuthorityInfo.UserRealmURIPrefix
        /\ at.ClientID = authParameters.ClientID
        /\ at.Scopes = ConcatenateScopes(authParameters.Scopes)}

ReadsSecret(secret) ==
    /\ last'.err = ErrNil
    /\ last'.value.accessToken # Nil
    /\ last'.value.accessToken.Secret = secret

\* C3 as stated: a TryReadCache right after a successful CacheTokenResponse
\* with a valid access token returns that token's secret.
C3_RoundTrip ==
    [][(CachedValidToken /\ ReadsBack)
          => ReadsSecret(last.tokenResponse.AccessToken)]_vars

\* C3 amended: it does when storage holds no access token for the same keys
\* under another host of the alias set; in every case the read succeeds and
\* an access token it returns is one stored for those keys.
C3_RoundTripAmended ==
    [][(CachedValidToken /\ ReadsBack) =>
          /\ last'.err = ErrNil
          /\ last'.value.accessToken # Nil => last'.value.accessToken \in StoredForRead
          /\ (\A at \in StoredForRead : at.Environment = authParameters.AuthorityInfo.Host)
                => ReadsSecret(last.tokenResponse.AccessToken)]_vars

\* The token of the latest response was read back at the time it was cached
\* and under the host it was cached for, with a second host in the alias set.
C3_Witness ==
    /\ ReadSucceeded
    /\ issued > 0
    /\ Len(last.metadata.Aliases) = 2
    /\ last.value.accessToken # Nil
    /\ last.value.accessToken.Secret = "at" \o ToString(issued)
    /\ last.value.accessToken.CachedAt = FormatInt(last.now)
    /\ last.value.accessToken.Environment = authParameters.AuthorityInfo.Host

\* C4 as stated: a response whose access token expires within 300 seconds
\* causes no access token write and no error, and a TryReadCache for the
\* same keys right after it returns no access token.
C4_ExpiredNotCached ==
    [][/\ CachedExpiredToken' =>
            /\ last'.err = ErrNil
            /\ \A i \in 1..Len(last'.calls) : last'.calls[i].call # "WriteAccessToken"
            /\ store'.accessTokens = store.accessTokens
       /\ (CachedExpiredToken /\ ReadsBack) =>
            /\ last'.err = ErrNil
            /\ last'.value.accessToken = Nil]_vars

\* C4 amended: the read right after it never returns the response's token:
\* it returns no access token, or one that storage held before the call and
\* that is still valid; it returns none when storage held none for the keys.
C4_ExpiredNotCachedAmended ==
    [][/\ CachedExpiredToken' =>
            /\ last'.err = ErrNil
            /\ \A i \in 1..Len(last'.calls) : last'.calls[i].call # "WriteAccessToken"
            /\ store'.accessTokens = store.accessTokens
       /\ (CachedExpiredToken /\ ReadsBack) =>
            /\ last'.err = ErrNil
            /\ \/ last'.value.accessToken = Nil
               \/ /\ last'.value.accessToken \in StoredForRead
                  /\ last'.value.accessToken.Secret # last.tokenResponse.AccessToken
                  /\ TokenRule(last'.value.accessToken, last'.now)
            /\ StoredForRead = {} => last'.value.accessToken = Nil]_vars

\* The latest response was cached (its ID token is read back) and the read
\* finds no access token for its keys.
C4_Witness ==
    /\ ReadSucceeded
    /\ issued > 0
    /\ last.value.idToken # Nil
    /\ last.value.idToken.Secret = "jwt" \o ToString(issued)
    /\ last.value.idToken.Environment = authParameters.AuthorityInfo.Host
    /\ AccessTokensAskedFor = {}
    /\ last.value.accessToken = Nil

(***************************************************************************)
(* Claims about the key checks.                                            *)
(***************************************************************************)
\* The step is a CacheTokenResponse one of whose keys is empty: the home
\* account id it derived, the host, realm or client id of the request, or
\* the joined granted scopes.
CachesWithEmptyKey ==
    /\ last'.op = "CacheTokenResponse"
    /\ \/ authParameters'.HomeaccountID = ""
       \/ authParameters.AuthorityInfo.Host = ""
       \/ authParameters.AuthorityInfo.UserRealmURIPrefix = ""
       \/ authParameters.ClientID = ""
       \/ ConcatenateScopes(last'.tokenResponse.GrantedScopes) = ""

\* C5: a CacheTokenResponse with an empty key returns the missing-key error
\* and no account, calls the storage manager not at all and leaves storage
\* as it was.
C5_EmptyKeyWritesNothing ==
    [][CachesWithEmptyKey =>
          /\ last'.err = ErrMissingKeyWrite
          /\ last'.value = Nil
          /\ last'.calls = <<>>
          /\ store' = store]_vars

\* A response without granted scopes was refused, for a request whose keys
\* are all there, after an earlier response had been cached.
C5_Witness ==
    /\ last.op = "CacheTokenResponse"
    /\ last.err = ErrMissingKeyWrite
    /\ last.tokenResponse.GrantedScopes = <<>>
    /\ authParameters.HomeaccountID # ""
    /\ EmptyKeyCount(authParameters) = 0
    /\ store # EmptyStore

\* The last call is a TryReadCache with an empty home account id, realm,
\* client id or scope list, or with an empty list of aliases resolved.
ReadWithEmptyKey ==
    /\ last.op = "TryReadCache"
    /\ \/ authParameters.HomeaccountID = ""
       \/ authParameters.AuthorityInfo.UserRealmURIPrefix = ""
       \/ authParameters.ClientID = ""
       \/ authParameters.Scopes = <<>>
       \/ (last.metadata.err = ErrNil /\ last.metadata.Aliases = <<>>)

\* C6 as stated: such a TryReadCache fails with the missing-key error and
\* reads nothing, whatever GetMetadataEntry gave.
C6_EmptyKeyReadsNothing ==
    ReadWithEmptyKey =>
        /\ last.err = ErrMissingKeyRead
        /\ last.value = Nil
        /\ last.calls = <<>>

\* C6 amended: such a TryReadCache fails and reads nothing, whatever
\* GetMetadataEntry gave: with the error of GetMetadataEntry when that
\* failed, and with the missing-key error otherwise.
C6_EmptyKeyReadsNothingAmended ==
    ReadWithEmptyKey =>
        /\ last.err = IF last.metadata.err # ErrNil THEN last.metadata.err
                      ELSE ErrMissingKeyRead
        /\ last.value = Nil
        /\ last.calls = <<>>

\* A read with an empty scope list, its other keys there and aliases
\* resolved, failed with the missing-key error while storage held tokens.
C6_Witness ==
    /\ last.op = "TryReadCache"
    /\ last.err = ErrMissingKeyRead
    /\ authParameters.Scopes = <<>>
    /\ EmptyKeyCount(authParameters) = 1
    /\ Len(last.metadata.Aliases) > 0
    /\ store.accessTokens # {}

(***************************************************************************)
(* Claims about failing writes.                                            *)
(***************************************************************************)
CallNames(calls) == [i \in 1..Len(calls) |-> calls[i].call]

\* C7: when a write of CacheTokenResponse fails, no write follows it and the
\* call returns the error of that write and no account.
C7_FailedWriteAborts ==
    last.op = "CacheTokenResponse" =>
        \A i \in 1..Len(last.calls) :
            last.calls[i].err # ErrNil =>
                /\ i = Len(last.calls)
                /\ last.err = last.calls[i].err
                /\ last.value = Nil

\* The writes a CacheTokenResponse makes when none fails.
PlannedWrites(tokenResponse, now) ==
    (IF tokenResponse.RefreshToken # "" THEN <<"WriteRefreshToken">> ELSE <<>>)
    \o (IF tokenResponse.AccessToken # "" /\ tokenResponse.ExpiresOn > now + 300
        THEN <<"WriteAccessToken">> ELSE <<>>)
    \o <<"WriteIDToken", "WriteAccount", "WriteAppMetadata">>

\* Up to which of the planned writes a call went: all of them when it
\* returned no error, else up to the first one that failed.
RECURSIVE UpToFailure(_)
UpToFailure(calls) ==
    IF calls = <<>> THEN <<>>
    ELSE IF Head(calls).err # ErrNil THEN <<Head(calls)>>
    ELSE <<Head(calls)>> \o UpToFailure(Tail(calls))

RECURSIVE Applied(_, _)
\* Storage after the writes of calls that did not fail.
Applied(s, calls) ==
    IF calls = <<>> THEN s
    ELSE Applied(IF Head(calls).err = ErrNil
                 THEN StorageWrite(s, Head(calls).call, Head(calls).arg) ELSE s,
                 Tail(calls))

\* C8: the writes of one CacheTokenResponse are the planned writes in order:
\* all of them on success, and on a failing write the writes before it and
\* no other; storage holds what the writes before it wrote and is otherwise
\* as before the call.
C8_WritesArePrefix ==
    [][(last'.op = "CacheTokenResponse" /\ last'.err # ErrMissingKeyWrite) =>
          LET planned == PlannedWrites(last'.tokenResponse, last'.now)
              names == CallNames(last'.calls)
          IN  /\ Len(names) <= Len(planned)
              /\ names = SubSeq(planned, 1, Len(names))
              /\ last'.calls = UpToFailure(last'.calls)
              /\ (last'.err = ErrNil) <=>
                     /\ names = planned
                     /\ \A i \in 1..Len(names) : last'.calls[i].err = ErrNil
              /\ store' = Applied(store, last'.calls)]_vars

(***************************************************************************)
(* Claims about deletion and about families.                               *)
(***************************************************************************)
\* C9: DeleteCachedRefreshToken for a request whose home account id, host
\* and client id are not empty returns no error.
C9_DeleteSucceeds ==
    (/\ last.op = "DeleteCachedRefreshToken"
     /\ authParameters.HomeaccountID # ""
     /\ authParameters.AuthorityInfo.Host # ""
     /\ authParameters.ClientID # "")
        => last.err = ErrNil

\* The app metadata stored for the reading client under the aliases.
AppMetadataAskedFor ==
    {am \in store.appMetadata :
        /\ am.ClientID = authParameters.ClientID
        /\ InAliases(am.Environment, last.metadata.Aliases)}

\* C10: TryReadCache looks the refresh token up with the family id of the
\* reading client's app metadata, and with an empty one when it has none;
\* when that family id is not empty, a refresh token that another client
\* wrote under it for the same home account id and aliases is returned.
C10_FamilyPrecedence ==
    ReadSucceeded =>
        /\ last.calls[4].call = "ReadRefreshToken"
        /\ AppMetadataAskedFor = {} => last.calls[4].arg[3] = ""
        /\ \A am \in AppMetadataAskedFor : last.calls[4].arg[3] = am.FamilyID
        /\ \A am \in AppMetadataAskedFor : \A rt \in store.refreshTokens :
              (/\ am.FamilyID # ""
               /\ rt.FamilyID = am.FamilyID
               /\ rt.ClientID # authParameters.ClientID
               /\ rt.HomeAccountID = authParameters.HomeaccountID
               /\ InAliases(rt.Environment, last.metadata.Aliases))
                  => last.value.refreshToken = rt

\* Client A, whose app metadata names family F, was returned the refresh
\* token that client B wrote under F.
C10_Witness ==
    /\ ReadSucceeded
    /\ authParameters.ClientID = "A"
    /\ \E am \in AppMetadataAskedFor : am.FamilyID = "F"
    /\ last.value.refreshToken # Nil
    /\ last.value.refreshToken.ClientID = "B"
    /\ last.value.refreshToken.FamilyID = "F"

(***************************************************************************)
(* Claims about the aliases of the authority.                              *)
(***************************************************************************)
\* The stored entities that the last TryReadCache asked for.
IDTokensAskedFor ==
    {it \in store.idTokens :
        /\ it.HomeAccountID = authParameters.HomeaccountID
        /\ InAliases(it.Environment, last.metadata.Aliases)
        /\ it.Realm = authParameters.AuthorityInfo.UserRealmURIPrefix
        /\ it.ClientID = authParameters.ClientID}

AccountsAskedFor ==
    {a \in store.accounts :
        /\ a.HomeAccountID = authParameters.HomeaccountID
        /\ InAliases(a.Environment, last.metadata.Aliases)
        /\ a.Realm = authParameters.AuthorityInfo.UserRealmURIPrefix}

RefreshTokensAskedFor ==
    {rt \in store.refreshTokens :
        /\ rt.HomeAccountID = authParameters.HomeaccountID
        /\ InAliases(rt.Environment, last.metadata.Aliases)
        /\ \/ \E am \in AppMetadataAskedFor :
                 am.FamilyID # "" /\ rt.FamilyID = am.FamilyID
           \/ /\ \A am \in AppMetadataAskedFor : am.FamilyID = ""
              /\ rt.FamilyID = ""
              /\ rt.ClientID = authParameters.ClientID}

\* Where the list of environments stands in the arguments of a read call.
AliasArgument(call) == IF call = "ReadAppMetadata" THEN 1 ELSE 2

DeletesWithEmptyKey ==
    \/ /\ last.op = "deleteCachedAccessToken"
       /\ (last.args[1] = "" \/ last.args[2] = "" \/ last.args[4] = "")
    \/ /\ last.op = "DeleteCachedRefreshToken"
       /\ \/ authParameters.HomeaccountID = ""
          \/ authParameters.AuthorityInfo.Host = ""
          \/ authParameters.ClientID = ""

\* C12: a deletion one of whose keys is empty fails, with an error that is
\* not the storage manager's, and calls the storage manager not at all.
C12_DeleteChecksKeys ==
    DeletesWithEmptyKey =>
        /\ last.err \notin {ErrNil, StorageError("DeleteCredentials")}
        /\ last.calls = <<>>

\* C18: deleteCachedAccessToken makes one storage call, a DeleteCredentials
\* for the access token type only and for the keys it was passed; it returns
\* the error of that call when there is one and no error otherwise, also when
\* the status is not success.
C18_DeleteAccessToken ==
    last.op = "deleteCachedAccessToken" =>
        /\ Len(last.calls) = 1
        /\ last.calls[1].call = "DeleteCredentials"
        /\ last.calls[1].arg[8] = {CredentialTypeOauth2AccessToken}
        /\ <<last.calls[1].arg[2], last.calls[1].arg[3], last.calls[1].arg[4],
             last.calls[1].arg[5], last.calls[1].arg[7]>> = last.args
        /\ last.err = last.calls[1].err
        /\ (last.calls[1].err = ErrNil /\ last.calls[1].status # OperationStatusTypeSuccess)
              => last.err = ErrNil

\* DeleteCredentials failed for the keys of a stored access token: its error
\* was returned and the token is still stored.
C18_Witness ==
    /\ last.op = "deleteCachedAccessToken"
    /\ last.err = StorageError("DeleteCredentials")
    /\ \E at \in store.accessTokens :
          last.args = <<at.HomeAccountID, at.Environment, at.Realm, at.ClientID, at.Scopes>>

\* DeleteCredentials gave a failure status and no error for the keys of a
\* stored access token: no error was returned.
C18_StatusIgnored ==
    /\ last.op = "deleteCachedAccessToken"
    /\ last.err = ErrNil
    /\ last.calls[1].status = OperationStatusTypeFailure
    /\ \E at \in store.accessTokens :
          last.args = <<at.HomeAccountID, at.Environment, at.Realm, at.ClientID, at.Scopes>>

(***************************************************************************)
(* Claims about what TryReadCache returns and leaves behind.               *)
(***************************************************************************)
\* A key of the last TryReadCache is empty.
ReadKeyIsEmpty ==
    \/ authParameters.HomeaccountID = ""
    \/ Len(last.metadata.Aliases) = 0
    \/ authParameters.AuthorityInfo.UserRealmURIPrefix = ""
    \/ authParameters.ClientID = ""
    \/ Len(authParameters.Scopes) = 0

\* C13: TryReadCache returns an error exactly when GetMetadataEntry failed
\* or a key is empty; the error of GetMetadataEntry is returned as it is,
\* with no result and without a read; in every other case the result is a
\* storage token response, whichever of its four entities are absent.
C13_ReadErrors ==
    last.op = "TryReadCache" =>
        /\ last.err # ErrNil <=> (last.metadata.err # ErrNil \/ ReadKeyIsEmpty)
        /\ last.metadata.err # ErrNil =>
              /\ last.err = last.metadata.err
              /\ last.value = Nil
              /\ last.calls = <<>>
        /\ last.err # ErrNil => last.value = Nil
        /\ last.err = ErrNil =>
              /\ last.value # Nil
              /\ DOMAIN last.value = {"accessToken", "refreshToken", "idToken", "account"}

\* A read of an empty cache succeeded with all four entities absent.
C13_Witness ==
    /\ ReadSucceeded
    /\ store = EmptyStore
    /\ last.value = CreateStorageTokenResponse(Nil, Nil, Nil, Nil)

\* A read whose keys are all there failed with the error of GetMetadataEntry.
C13_ResolverFailed ==
    /\ last.op = "TryReadCache"
    /\ last.err = ErrMetadata
    /\ EmptyKeyCount(authParameters) = 0

\* The stored access tokens asked for by the last TryReadCache that are
\* expired at the time of the read: written by this code, and now within 300
\* seconds of their expiry or past it.
ExpiredAskedFor ==
    {at \in AccessTokensAskedFor :
        /\ ParseInt(at.CachedAt).ok
        /\ ParseInt(at.ExpiresOnUnixTimestamp).ok
        /\ ParseInt(at.ExpiresOnUnixTimestamp).val <= last.now + 300}

\* C14: a TryReadCache, failed or not, leaves every stored entity as it was;
\* an access token it judges invalid is not returned and stays stored.
C14_ReadLeavesStore ==
    [][last'.op = "TryReadCache" =>
          /\ store' = store
          /\ \A at \in store.accessTokens :
                ~TokenRule(at, last'.now) =>
                    /\ at \in store'.accessTokens
                    /\ last'.value # Nil => last'.value.accessToken # at]_vars

\* An expired access token was asked for, reported absent and is still
\* stored.
C14_Witness ==
    /\ ReadSucceeded
    /\ ExpiredAskedFor # {}
    /\ AccessTokensAskedFor = ExpiredAskedFor
    /\ last.value.accessToken = Nil

(***************************************************************************)
(* Claims about what CacheTokenResponse stores.                            *)
(***************************************************************************)
\* C15: every access token that a CacheTokenResponse writes has, at the time
\* of the call, cached-at equal to now, so not after it, and expires-on more
\* than 300 seconds after now; it is written by a WriteAccessToken call of
\* that CacheTokenResponse.
C15_WrittenTokensValid ==
    [][\A at \in store'.accessTokens \ store.accessTokens :
          /\ last'.op = "CacheTokenResponse"
          /\ \E i \in 1..Len(last'.calls) :
                last'.calls[i].call = "WriteAccessToken" /\ last'.calls[i].arg = at
          /\ ParseInt(at.CachedAt) = [ok |-> TRUE, val |-> last'.now]
          /\ ParseInt(at.ExpiresOnUnixTimestamp).ok
          /\ ParseInt(at.CachedAt).val <= last'.now
          /\ ParseInt(at.ExpiresOnUnixTimestamp).val > last'.now + 300]_vars

\* A response whose access token expires 301 seconds from now was cached:
\* WriteAccessToken was called and the token is stored with cached-at now.
C15_Witness ==
    /\ last.op = "CacheTokenResponse"
    /\ last.err = ErrNil
    /\ last.tokenResponse.ExpiresOn = last.now + 301
    /\ \E i \in 1..Len(last.calls) :
          /\ last.calls[i].call = "WriteAccessToken"
          /\ last.calls[i].arg \in store.accessTokens
          /\ last.calls[i].arg.CachedAt = FormatInt(last.now)
          /\ last.calls[i].arg.Secret = last.tokenResponse.AccessToken

(***************************************************************************)
(* Claims about the app metadata.                                          *)
(***************************************************************************)
\* The app metadata stored for the client id and host of the request.
AppMetadataOfRequest(s) ==
    {am \in s.appMetadata :
        /\ am.ClientID = authParameters.ClientID
        /\ am.Environment = authParameters.AuthorityInfo.Host}

\* C17 as stated: a CacheTokenResponse for a client id and host that have app
\* metadata stored does not write app metadata and leaves the stored one as
\* it is.
C17_AppMetadataWrittenOnce ==
    [][(last'.op = "CacheTokenResponse" /\ AppMetadataOfRequest(store) # {}) =>
          /\ \A i \in 1..Len(last'.calls) : last'.calls[i].call # "WriteAppMetadata"
          /\ AppMetadataOfRequest(store') = AppMetadataOfRequest(store)]_vars

\* C17 amended: every successful CacheTokenResponse ends with a
\* WriteAppMetadata of (family id of the response, client id, host), also
\* when app metadata is stored for that client id and host.
C17_AppMetadataRewritten ==
    [][(last'.op = "CacheTokenResponse" /\ last'.err = ErrNil) =>
          /\ last'.calls # <<>>
          /\ last'.calls[Len(last'.calls)].call = "WriteAppMetadata"
          /\ last'.calls[Len(last'.calls)].arg =
                [FamilyID |-> last'.tokenResponse.FamilyID,
                 ClientID |-> authParameters.ClientID,
                 Environment |-> authParameters.AuthorityInfo.Host]]_vars

\* The client whose app metadata named family F cached a response without a
\* family id: its app metadata now has none.
C17_Witness ==
    /\ last.op = "CacheTokenResponse"
    /\ last.err = ErrNil
    /\ issued = 2
    /\ last.tokenResponse.FamilyID = ""
    /\ AppMetadataOfRequest(store) =
          {[FamilyID |-> "", ClientID |-> authParameters.ClientID,
            Environment |-> authParameters.AuthorityInfo.Host]}
    /\ \E rt \in store.refreshTokens :
          rt.FamilyID = "F" /\ rt.ClientID = authParameters.ClientID

C20_RequestHomeAccountID ==
    [][last'.op = "CacheTokenResponse" =>
          /\ authParameters'.HomeaccountID =
                GetHomeAccountIDFromClientInfo(last'.tokenResponse)
          /\ authParameters'.AuthorityInfo = authParameters.AuthorityInfo
          /\ authParameters'.ClientID = authParameters.ClientID
          /\ authParameters'.Scopes = authParameters.Scopes
          /\ DOMAIN authParameters' = DOMAIN authParameters]_vars

\* A CacheTokenResponse whose response has no user id in its client info
\* failed with the missing-key error, for a request whose realm, host, client
\* id and scopes are there: the request's home account id is now empty.
C20_Witness ==
    /\ last.op = "CacheTokenResponse"
    /\ last.err = ErrMissingKeyWrite
    /\ last.tokenResponse.ClientInfo.UID = ""
    /\ authParameters.HomeaccountID = ""
    /\ EmptyKeyCount(authParameters) = 1

\* The first CacheTokenResponse failed with a storage error: the request has
\* the home account id derived from its response.
C20_AfterStorageError ==
    /\ last.op = "CacheTokenResponse"
    /\ last.err = StorageError("WriteRefreshToken")
    /\ issued = 1
    /\ store = EmptyStore
    /\ authParameters.HomeaccountID = "u1.t1"

(***************************************************************************)
(* Claims about concurrent calls.                                          *)
(***************************************************************************)
\* The entities of the kind that call writes.
StoredBy(s, call) ==
    CASE call = "WriteRefreshToken" -> s.refreshTokens
      [] call = "WriteAccessToken" -> s.accessTokens
      [] call = "WriteIDToken" -> s.idTokens
      [] call = "WriteAccount" -> s.accounts
      [] call = "WriteAppMetadata" -> s.appMetadata

\* The storage calls that goroutine g made, in the order it made them.
CallsBy(g) == SelectSeq(last.calls, LAMBDA c : c.by = g)

\* Where the write named call stands in the order of the source.
WriteOrder(call) == CHOOSE i \in 1..Len(WriteCalls) : WriteCalls[i] = call

\* The last of the storage calls made that is a write named call.
LastWrite(call) ==
    LET at == {i \in 1..Len(last.calls) : last.calls[i].call = call}
    IN  last.calls[CHOOSE i \in at : \A j \in at : j <= i]

\* The write named call that a goroutine at c makes for its response.
WriteOf(c, call) ==
    CASE call = "WriteRefreshToken" ->
            CreateRefreshTokenCacheItem(c.homeAccountID, c.environment, c.clientID,
                c.tokenResponse.RefreshToken, c.tokenResponse.FamilyID)
      [] call = "WriteAccessToken" ->
            CreateAccessTokenCacheItem(c.homeAccountID, c.environment, c.realm,
                c.clientID, c.cachedAt, c.tokenResponse.ExpiresOn,
                c.tokenResponse.ExtExpiresOn, c.target, c.tokenResponse.AccessToken)
      [] call = "WriteIDToken" ->
            CreateIDTokenCacheItem(c.homeAccountID, c.environment, c.realm,
                c.clientID, c.tokenResponse.IDToken.RawToken)
      [] call = "WriteAccount" ->
            CreateAccount(c.homeAccountID, c.environment, c.realm,
                GetLocalAccountID(c.tokenResponse.IDToken), c.authorityType,
                c.tokenResponse.IDToken.PreferredUsername)
      [] call = "WriteAppMetadata" ->
            CreateAppMetadata(c.tokenResponse.FamilyID, c.clientID, c.environment)

\* C16: with the storage calls of two CacheTokenResponse calls interleaved in
\* any order, each call makes its own writes in the order of the source and
\* what storage holds of each kind of entity is what the last write of that
\* kind wrote, whichever call made it.
C16_LastWriteWins ==
    /\ \A g \in Goroutines :
          LET mine == CallsBy(g)
          IN  /\ \A i \in 1..Len(mine) :
                    /\ mine[i].arg = WriteOf(running[g], mine[i].call)
                    /\ \A j \in 1..Len(mine) :
                          i < j => WriteOrder(mine[i].call) < WriteOrder(mine[j].call)
              /\ (running[g].pc = "done" /\ running[g].err = ErrNil) =>
                    CallNames(mine) =
                        PlannedWrites(running[g].tokenResponse, running[g].cachedAt)
    /\ \A k \in 1..Len(WriteCalls) :
          LET call == WriteCalls[k]
          IN  IF \E i \in 1..Len(last.calls) : last.calls[i].call = call
              THEN StoredBy(store, call) = {LastWrite(call).arg}
              ELSE StoredBy(store, call) = {}

\* Both calls returned; storage holds the ID token of the first response
\* with the account of the second, and the first call made the last write of
\* all.
C16_Witness ==
    /\ \A g \in Goroutines : running[g].pc = "done" /\ running[g].err = ErrNil
    /\ \E it \in store.idTokens : it.Secret = "jwt1"
    /\ \E a \in store.accounts : a.PreferredUsername = "user2"
    /\ \E g \in Goroutines :
          /\ running[g].tokenResponse.IDToken.RawToken = "jwt1"
          /\ last.calls[Len(last.calls)].by = g

====
